---------------------------- MODULE Spec2Model ----------------------------
(***************************************************************************)
(* EEGRater backend: the EDF decoder (read_edf), the 10-second segmenter   *)
(* (EDFParser._extract_snippets_from_edf), the per-file JSON cache          *)
(* (EDFParser.process_edf_file) and the directory aggregate                *)
(* (EDFParser.get_all_snippets, get_snippet_by_id, get_snippet_ids).       *)
(*                                                                         *)
(* Abstractions: time is counted in whole seconds and sampling rates are   *)
(* exact fractions <<samples, seconds>>; a physical value is the exact     *)
(* fraction <<numerator, denominator>> of the rescaling formula; the data  *)
(* section of a file is its stream of 16-bit samples after header_size.    *)
(***************************************************************************)
EXTENDS Integers, Sequences, FiniteSets, TLC

VARIABLES
    file,              \* SpecDecode: the EDF file handed to read_edf
    recording,         \* SpecDecode: what read_edf returned or raised
    extracted,         \* SpecDecode: what _extract_snippets_from_edf returned
    edf_directory,     \* self.edf_directory: file name -> content (or absent)
    cache_directory,   \* self.cache_directory: cache path -> text of the entry
    snippets_cache,    \* self._snippets_cache
    case_sensitive,    \* whether Path.glob matches names case-sensitively
    hist,              \* the last two calls made since the files were last changed
    edits,             \* how many times the files were changed from outside
    pc,                \* SpecConc: where each thread is in process_edf_file
    local              \* SpecConc: the local variables of each thread's call

vars == <<file, recording, extracted, edf_directory, cache_directory,
          snippets_cache, case_sensitive, hist, edits, pc, local>>

-----------------------------------------------------------------------------
(* Bounds of the model *)

MaxRecords == 3
MaxChannels == 2
MaxSpr == 2
MaxMissing == 1

(* Program constants *)

snippet_duration == 10

-----------------------------------------------------------------------------
(* Sequence helpers *)

Range(s) == {s[i] : i \in 1..Len(s)}

Min2(a, b) == IF a < b THEN a ELSE b

SeqsOfLen(S, n) == [1..n -> S]

\* s[lo:hi] with Python's clipping of both ends to the length (0-based, hi exclusive)
Slice(s, lo, hi) ==
    LET l == Min2(lo, Len(s))
        h == Min2(hi, Len(s))
    IN  IF h <= l THEN <<>> ELSE [i \in 1..(h - l) |-> s[l + i]]

-----------------------------------------------------------------------------
(* read_edf *)

\* The physical range of the channel at position ch: every channel has its own
PhysicalRange(ch) == <<-100 * ch, 100 * ch>>

\* The digital ranges a header may declare; <<1, 1>> is the degenerate one
DigitalRanges == {<<-2, 2>>, <<0, 4>>, <<1, 1>>}

RecordDurations == {0, 5, 10, 25}

\* line 120-121: (digital - digital_min) * scale + physical_min, as an exact
\* fraction over the divisor digital_max - digital_min
Rescale(f, ch, digital) ==
    <<(digital - f.digital_min[ch]) * (f.physical_max[ch] - f.physical_min[ch])
          + f.physical_min[ch] * (f.digital_max[ch] - f.digital_min[ch]),
      f.digital_max[ch] - f.digital_min[ch]>>

ZeroFill == <<0, 1>>

Raised(e) == [ok |-> FALSE, error |-> e]

\* An inner loop that stores each block at the position of the stream, not at
\* rec * n_samples of the channel's own row
ReadChannelBlockAtPos(f, st, rec, ch) ==
    LET n_samples == f.samples_per_record[ch]
        total == Len(st.data[ch])
        raw == Slice(f.samples, st.pos, st.pos + n_samples)
        start_idx == st.pos
        lo == Min2(start_idx, total)
        hi == Min2(start_idx + n_samples, total)
        physical == [k \in 1..Len(raw) |-> Rescale(f, ch, raw[k])]
    IN  IF f.digital_max[ch] = f.digital_min[ch]
        THEN [st EXCEPT !.error = "ZeroDivisionError"]
        ELSE IF Len(raw) = hi - lo
        THEN [st EXCEPT !.pos = st.pos + Len(raw),
                        !.data[ch] = [i \in 1..total |->
                            IF i > lo /\ i <= hi THEN physical[i - lo] ELSE @[i]]]
        ELSE IF Len(raw) = 1
        THEN [st EXCEPT !.pos = st.pos + 1,
                        !.data[ch] = [i \in 1..total |->
                            IF i > lo /\ i <= hi THEN physical[1] ELSE @[i]]]
        ELSE [st EXCEPT !.error = "ValueError"]

\* lines 113-125: one pass of the inner loop, for record rec (0-based) and channel
\* ch (1-based), on the loop state st = [data, pos, error]
ReadChannelBlock(f, st, rec, ch) ==
    LET n_samples == f.samples_per_record[ch]
        total == Len(st.data[ch])
        \* f.read(n_samples * 2): short at the end of the stream
        raw == Slice(f.samples, st.pos, st.pos + n_samples)
        start_idx == rec * n_samples
        lo == Min2(start_idx, total)
        hi == Min2(start_idx + n_samples, total)
        physical == [k \in 1..Len(raw) |-> Rescale(f, ch, raw[k])]
    IN  IF f.digital_max[ch] = f.digital_min[ch]
        THEN [st EXCEPT !.error = "ZeroDivisionError"]
        ELSE IF Len(raw) = hi - lo
        THEN [st EXCEPT !.pos = st.pos + Len(raw),
                        !.data[ch] = [i \in 1..total |->
                            IF i > lo /\ i <= hi THEN physical[i - lo] ELSE @[i]]]
        ELSE IF Len(raw) = 1
        THEN \* numpy broadcasts a single value over the slice
             [st EXCEPT !.pos = st.pos + 1,
                        !.data[ch] = [i \in 1..total |->
                            IF i > lo /\ i <= hi THEN physical[1] ELSE @[i]]]
        ELSE [st EXCEPT !.error = "ValueError"]

\* lines 111-112: for rec in range(n_records): for ch in range(n_channels)
RECURSIVE ReadRecords(_, _, _)
ReadRecords(f, k, st) ==
    IF st.error # "" \/ k >= f.n_records * f.n_channels THEN st
    ELSE ReadRecords(f, k + 1,
             ReadChannelBlock(f, st, k \div f.n_channels, (k % f.n_channels) + 1))

read_edf(f) ==
    IF ~f.exists THEN Raised("FileNotFoundError")
    ELSE IF ~f.numeric THEN Raised("ValueError")
    ELSE IF f.n_channels = 0 THEN Raised("IndexError")
    ELSE
    LET total_samples == f.n_records * f.samples_per_record[1]
        zeros == [ch \in 1..f.n_channels |-> [i \in 1..total_samples |-> ZeroFill]]
        st == ReadRecords(f, 0, [data |-> zeros, pos |-> 0, error |-> ""])
    IN  IF st.error # "" THEN Raised(st.error)
        ELSE IF f.record_duration = 0 THEN Raised("ZeroDivisionError")
        ELSE [ok |-> TRUE,
              data |-> st.data,
              sampling_rate |-> <<f.samples_per_record[1], f.record_duration>>,
              duration |-> f.n_records * f.record_duration,
              n_records |-> f.n_records,
              record_duration |-> f.record_duration,
              n_channels |-> f.n_channels]

-----------------------------------------------------------------------------
(* EDFParser._extract_snippets_from_edf *)

\* int(t * sfreq), sfreq = <<samples, seconds>>: truncation of a value >= 0
SampleIndex(t, sfreq) == (t * sfreq[1]) \div sfreq[2]

\* f"{edf_path.stem}_snippet_{i:04d}": the text is decided by the stem and the index
SnippetId(edf_path, i) == <<edf_path.stem, "_snippet_", i>>

\* lines 173-196: the dictionary appended for window i (0-based)
MakeSnippet(edf_path, edf_data, i) ==
    LET start_time == i * snippet_duration
        end_time == start_time + snippet_duration
        start_sample == SampleIndex(start_time, edf_data.sampling_rate)
        end_sample == SampleIndex(end_time, edf_data.sampling_rate)
    IN  [id |-> SnippetId(edf_path, i),
         channels |-> edf_data.n_channels,
         data |-> [ch \in 1..edf_data.n_channels |->
                      Slice(edf_data.data[ch], start_sample, end_sample)],
         sampling_rate |-> edf_data.sampling_rate,
         duration |-> snippet_duration,
         source_file |-> edf_path,
         start_time |-> start_time,
         end_time |-> end_time]

\* A segmenter that pads the trailing remainder into one more window
SnippetCountPadded(edf_data) ==
    (edf_data.duration + snippet_duration - 1) \div snippet_duration

\* line 170: int(duration // self.snippet_duration); range() of it is empty below 1
SnippetCount(edf_data) ==
    LET n == edf_data.duration \div snippet_duration
    IN  IF n < 0 THEN 0 ELSE n

\* lines 156-202: the snippets returned, and the error printed by the except
\* clause ("" when read_edf returned)
extract_snippets_from_edf(edf_path, f) ==
    LET edf_data == read_edf(f)
    IN  IF ~edf_data.ok
        THEN [snippets |-> <<>>, printed |-> edf_data.error]
        ELSE [snippets |-> [k \in 1..SnippetCount(edf_data) |->
                               MakeSnippet(edf_path, edf_data, k - 1)],
              printed |-> ""]

-----------------------------------------------------------------------------
(* The EDF files the decoder is run on *)

\* The data section: the declared samples in file order, the last `missing` cut off
Stream(n_records, spr, missing) ==
    LET RECURSIVE Sum(_)
        Sum(k) == IF k = 0 THEN 0 ELSE spr[k] + Sum(k - 1)
        declared == n_records * Sum(Len(spr))
        len == IF missing > declared THEN 0 ELSE declared - missing
    IN  [k \in 1..len |-> k]

EdfFile(n_records, record_duration, ranges, spr, missing) ==
    [exists |-> TRUE,
     numeric |-> TRUE,
     n_records |-> n_records,
     record_duration |-> record_duration,
     n_channels |-> Len(spr),
     physical_min |-> [ch \in 1..Len(spr) |-> PhysicalRange(ch)[1]],
     physical_max |-> [ch \in 1..Len(spr) |-> PhysicalRange(ch)[2]],
     digital_min |-> [ch \in 1..Len(spr) |-> ranges[ch][1]],
     digital_max |-> [ch \in 1..Len(spr) |-> ranges[ch][2]],
     samples_per_record |-> spr,
     samples |-> Stream(n_records, spr, missing)]

\* A file whose header holds a non-numeric field, and a path with no file
GarbledFile == [EdfFile(1, 10, <<>>, <<>>, 0) EXCEPT !.numeric = FALSE]
NoFile == [EdfFile(0, 0, <<>>, <<>>, 0) EXCEPT !.exists = FALSE]

\* file is one of the files with c channels
IsEdfFileOf(c) ==
    \E n \in 0..MaxRecords, d \in RecordDurations,
       r \in SeqsOfLen(DigitalRanges, c), s \in SeqsOfLen(1..MaxSpr, c),
       m \in 0..MaxMissing :
        file = EdfFile(n, d, r, s, m)

NotRun == [ok |-> FALSE, error |-> "not run"]
NotExtracted == [snippets |-> <<>>, printed |-> "not run"]
samplePath == [stem |-> "a", ext |-> "edf"]

-----------------------------------------------------------------------------
(* SpecDecode: read_edf and the segmenter applied to every file of the bounds *)

CacheIdle ==
    /\ edf_directory = <<>>
    /\ cache_directory = <<>>
    /\ snippets_cache = <<>>
    /\ case_sensitive = TRUE
    /\ hist = <<>>
    /\ edits = 0
    /\ pc = <<>>
    /\ local = <<>>

InitDecode ==
    /\ \/ file \in {GarbledFile, NoFile}
       \/ \E c \in 0..MaxChannels : IsEdfFileOf(c)
    /\ recording = NotRun
    /\ extracted = NotExtracted
    /\ CacheIdle

Decode ==
    /\ recording = NotRun
    /\ recording' = read_edf(file)
    /\ UNCHANGED <<file, extracted, edf_directory, cache_directory,
                   snippets_cache, case_sensitive, hist, edits, pc, local>>

Segment ==
    /\ extracted = NotExtracted
    /\ extracted' = extract_snippets_from_edf(samplePath, file)
    /\ UNCHANGED <<file, recording, edf_directory, cache_directory,
                   snippets_cache, case_sensitive, hist, edits, pc, local>>

NextDecode == Decode \/ Segment

SpecDecode == InitDecode /\ [][NextDecode]_vars

-----------------------------------------------------------------------------
(* Claims about the decoder and the segmenter, under SpecDecode *)

Degenerate(f) ==
    /\ f.exists /\ f.numeric
    /\ \E ch \in 1..f.n_channels : f.digital_min[ch] = f.digital_max[ch]

Heterogeneous(f) ==
    /\ f.exists /\ f.numeric
    /\ \E c1, c2 \in 1..f.n_channels :
           f.samples_per_record[c1] # f.samples_per_record[c2]

RecordSize(f) ==
    LET RECURSIVE Sum(_)
        Sum(k) == IF k = 0 THEN 0 ELSE f.samples_per_record[k] + Sum(k - 1)
    IN  Sum(f.n_channels)

ChannelOffset(f, ch) ==
    LET RECURSIVE Sum(_)
        Sum(k) == IF k = 0 THEN 0 ELSE f.samples_per_record[k] + Sum(k - 1)
    IN  Sum(ch - 1)

Complete(f) == Len(f.samples) = f.n_records * RecordSize(f)

\* Where the file format puts channel ch's samples: sample k of record r at
\* absolute index r * samples_per_record[ch] + k
FormatRow(f, ch) ==
    [i \in 1..(f.n_records * f.samples_per_record[ch]) |->
        LET r == (i - 1) \div f.samples_per_record[ch]
            k == (i - 1) % f.samples_per_record[ch]
        IN  Rescale(f, ch, f.samples[r * RecordSize(f) + ChannelOffset(f, ch) + k + 1])]

\* C5: a file with digital_min = digital_max on some channel fails decoding with
\* a reported error, whatever its record count and wherever the channel is.
C5_DegenerateRangeReported ==
    (Degenerate(file) /\ extracted # NotExtracted) => extracted.printed # ""

\* C6: a file whose channels declare different samples_per_record is never decoded
\* into a recording whose matrix departs from the layout of the file (a row of the
\* wrong length, a sample at the wrong index, a position left at the zero fill).
C6_NoSilentMisalignment ==
    (Heterogeneous(file) /\ Complete(file) /\ recording.ok) =>
        \A ch \in 1..file.n_channels : recording.data[ch] = FormatRow(file, ch)

\* A valid recording: a numeric header with at least one channel, a record
\* duration above 0, no degenerate range, one samples_per_record for all channels
\* and the whole data section present
Valid(f) ==
    /\ f.exists /\ f.numeric /\ f.n_channels >= 1 /\ f.record_duration > 0
    /\ ~Degenerate(f) /\ ~Heterogeneous(f) /\ Complete(f)

\* C12: for a valid recording with N channels, S samples per record and R records
\* read_edf returns N rows of R*S values, the k-th sample of channel c in record r
\* (record-major, channel-minor in the stream) at row c, index r*S + k, rescaled
\* with the bounds of channel c.
C12_MatrixLayout ==
    (Valid(file) /\ recording # NotRun) =>
        /\ recording.ok
        /\ Len(recording.data) = file.n_channels
        /\ \A ch \in 1..file.n_channels :
              /\ Len(recording.data[ch]) = file.n_records * file.samples_per_record[1]
              /\ recording.data[ch] = FormatRow(file, ch)

\* Two channels of two samples per record, three records, decoded
C12_Witness ==
    /\ Valid(file) /\ recording # NotRun /\ recording.ok
    /\ file.n_channels = 2 /\ file.n_records = 3
    /\ file.samples_per_record = <<2, 2>>
    /\ Len(recording.data[2]) = 6

\* The number of whole windows that fit: the n with n*w <= total < (n+1)*w
WholeWindows(total) ==
    CHOOSE n \in 0..total :
        n * snippet_duration <= total /\ total < (n + 1) * snippet_duration

\* C7: the segmenter returns exactly floor(total_duration / window_duration)
\* snippets in ascending index order, window i covering [i*w, (i+1)*w), every
\* window inside the recording (the remainder is dropped, not padded, no error).
C7_WindowCount ==
    (extracted # NotExtracted /\ extracted.printed = "") =>
        LET total == file.n_records * file.record_duration
            out == extracted.snippets
        IN  /\ Len(out) = WholeWindows(total)
            /\ \A i \in 1..Len(out) :
                  /\ out[i].id = SnippetId(samplePath, i - 1)
                  /\ out[i].start_time = (i - 1) * snippet_duration
                  /\ out[i].end_time = i * snippet_duration
                  /\ out[i].end_time <= total

\* A 25-second recording was segmented into 2 snippets, 5 seconds dropped
C7_Witness ==
    /\ extracted # NotExtracted /\ extracted.printed = ""
    /\ file.n_records * file.record_duration = 25
    /\ Len(extracted.snippets) = 2

-----------------------------------------------------------------------------
(* The files of the directory and the cache entries *)

Path(stem, ext) == [stem |-> stem, ext |-> ext]

Names == {Path("a", "edf"), Path("A", "EDF"), Path("a", "EDF"), Path("b", "Edf")}

\* str.lower() on the letters of the names above
Lower(x) ==
    CASE x \in {"a", "A"} -> "a"
      [] x \in {"b", "B"} -> "b"
      [] x \in {"edf", "EDF", "Edf"} -> "edf"
      [] OTHER -> x

\* Two names that a case-insensitive filesystem holds as one file
SameFolded(p, q) == Lower(p.stem) = Lower(q.stem) /\ Lower(p.ext) = Lower(q.ext)

\* The contents a file of the directory may have
Catalogue ==
    [good   |-> EdfFile(2, 10, << <<-2, 2>> >>, <<1>>, 0),
     good2  |-> EdfFile(1, 10, << <<0, 4>> >>, <<1>>, 0),
     short  |-> EdfFile(1, 5, << <<-2, 2>> >>, <<1>>, 0),
     bad    |-> EdfFile(1, 10, << <<1, 1>> >>, <<1>>, 0),
     absent |-> NoFile]

Contents == {"good", "good2", "short", "bad"}

Present(dir) == {p \in Names : dir[p] # "absent"}

\* What the segmenter returns for each name and content
Extracted ==
    [p \in Names, c \in Contents \cup {"absent"} |->
        extract_snippets_from_edf(p, Catalogue[c])]

\* json.dump of a list: the opening bracket, one item per snippet, the closing one
json_dump(snippets) ==
    <<[tok |-> "["]>> \o [i \in 1..Len(snippets) |-> [tok |-> "item", value |-> snippets[i]]]
        \o <<[tok |-> "]"]>>

\* json.load: the items between the brackets, or JSONDecodeError on any other text
json_load(text) ==
    IF /\ Len(text) >= 2
       /\ text[1].tok = "[" /\ text[Len(text)].tok = "]"
       /\ \A i \in 2..(Len(text) - 1) : text[i].tok = "item"
    THEN [ok |-> TRUE, value |-> [i \in 1..(Len(text) - 2) |-> text[i + 1].value]]
    ELSE [ok |-> FALSE, value |-> <<>>]

NoEntry == [exists |-> FALSE, text |-> <<>>]
Entry(text) == [exists |-> TRUE, text |-> text]

\* lines 151-154: the stem and the first 8 hex digits of md5(str(edf_file)); the
\* digest is taken as distinct for the distinct path strings of Names
get_cache_path(edf_file) == <<edf_file.stem, Path(edf_file.stem, edf_file.ext), "_snippets.json">>

CachePaths == {get_cache_path(p) : p \in Names}

-----------------------------------------------------------------------------
(* EDFParser.process_edf_file *)

\* lines 210-211: the entry is loaded and returned; loaded is what json.load made
\* of its text
CacheHit(cdir, loaded) ==
    [raised |-> IF loaded.ok THEN "" ELSE "JSONDecodeError",
     result |-> loaded.value,
     cdir |-> cdir, decodes |-> 0, reads |-> 1, printed |-> {}]

\* lines 214-221: ex is what _extract_snippets_from_edf returned; the entry is
\* written only for a list that is not empty
CacheMiss(edf_path, cdir, ex) ==
    [raised |-> "", result |-> ex.snippets,
     cdir |-> IF ex.snippets # <<>>
              THEN [cdir EXCEPT ![get_cache_path(edf_path)] =
                       Entry(json_dump(ex.snippets))]
              ELSE cdir,
     decodes |-> 1, reads |-> 0,
     printed |-> IF ex.printed # "" THEN {edf_path} ELSE {}]

\* A process_edf_file that never writes the entry (lines 217-219 left out)
process_edf_file_unsaved(edf_path, force_reprocess, dir, cdir) ==
    LET cache_path == get_cache_path(edf_path)
        ex == Extracted[edf_path, dir[edf_path]]
    IN  IF cdir[cache_path].exists /\ ~force_reprocess
        THEN LET loaded == json_load(cdir[cache_path].text)
             IN  [raised |-> IF loaded.ok THEN "" ELSE "JSONDecodeError",
                  result |-> loaded.value,
                  cdir |-> cdir, decodes |-> 0, reads |-> 1, printed |-> {}]
        ELSE [raised |-> "", result |-> ex.snippets, cdir |-> cdir,
              decodes |-> 1, reads |-> 0,
              printed |-> IF ex.printed # "" THEN {edf_path} ELSE {}]

\* A process_edf_file whose entry is bound to the content: an entry that does not
\* hold what the file now yields is not a hit
process_edf_file_validated(edf_path, force_reprocess, dir, cdir) ==
    IF /\ cdir[get_cache_path(edf_path)].exists /\ ~force_reprocess
       /\ cdir[get_cache_path(edf_path)].text =
              json_dump(Extracted[edf_path, dir[edf_path]].snippets)
    THEN CacheHit(cdir, json_load(cdir[get_cache_path(edf_path)].text))
    ELSE CacheMiss(edf_path, cdir, Extracted[edf_path, dir[edf_path]])

\* lines 204-221, on the directory dir and the cache directory cdir: what the call
\* raises or returns, the cache directory it leaves, how many times it ran
\* read_edf and json.load, and the paths whose error it printed
process_edf_file(edf_path, force_reprocess, dir, cdir) ==
    IF cdir[get_cache_path(edf_path)].exists /\ ~force_reprocess
    THEN CacheHit(cdir, json_load(cdir[get_cache_path(edf_path)].text))
    ELSE CacheMiss(edf_path, cdir, Extracted[edf_path, dir[edf_path]])

-----------------------------------------------------------------------------
(* EDFParser.get_all_snippets, get_snippet_by_id, get_snippet_ids *)

\* Path.glob("*." + ext): by the letters as written, or folded where the platform
\* matches names case-insensitively
glob(dir, sensitive, ext) ==
    {p \in Present(dir) :
        IF sensitive THEN p.ext = ext ELSE Lower(p.ext) = Lower(ext)}

\* line 231: set(glob("*.edf")) | set(glob("*.EDF"))
edf_files(dir, sensitive) == glob(dir, sensitive, "edf") \cup glob(dir, sensitive, "EDF")

\* list(set): the files in any order
Orders(S) ==
    {o \in [1..Cardinality(S) -> S] :
        \A i, j \in 1..Cardinality(S) : o[i] = o[j] => i = j}

None == [set |-> FALSE, value |-> <<>>]
Some(v) == [set |-> TRUE, value |-> v]

\* line 235: all_snippets.extend(snippets), r being what process_edf_file did
Extend(acc, r) ==
    [raised |-> r.raised,
     all_snippets |-> acc.all_snippets \o r.result,
     cdir |-> r.cdir,
     decodes |-> acc.decodes + r.decodes,
     reads |-> acc.reads + r.reads,
     printed |-> acc.printed \cup r.printed]

\* lines 233-235: the loop from file k of order on; an exception ends it
RECURSIVE ProcessFiles(_, _, _, _, _)
ProcessFiles(order, k, force_reprocess, dir, acc) ==
    IF k > Len(order) \/ acc.raised # "" THEN acc
    ELSE ProcessFiles(order, k + 1, force_reprocess, dir,
             Extend(acc, process_edf_file(order[k], force_reprocess, dir, acc.cdir)))

\* lines 237-238: the aggregate is assigned and returned when the loop ended
\* without an exception; acc is what the loop did, sc the aggregate before
Rebuilt(acc, sc) ==
    [raised |-> acc.raised,
     result |-> IF acc.raised = "" THEN acc.all_snippets ELSE <<>>,
     cdir |-> acc.cdir,
     sc |-> IF acc.raised = "" THEN Some(acc.all_snippets) ELSE sc,
     decodes |-> acc.decodes, reads |-> acc.reads,
     printed |-> acc.printed, enumerated |-> TRUE]

\* A get_all_snippets whose line 225 tests the aggregate for truth, not for None
get_all_snippets_truthy(force_reprocess, order, dir, cdir, sc) ==
    IF sc.set /\ sc.value # <<>> /\ ~force_reprocess
    THEN [raised |-> "", result |-> sc.value, cdir |-> cdir, sc |-> sc,
          decodes |-> 0, reads |-> 0, printed |-> {}, enumerated |-> FALSE]
    ELSE LET acc == ProcessFiles(order, 1, force_reprocess, dir,
                        [raised |-> "", all_snippets |-> <<>>, cdir |-> cdir,
                         decodes |-> 0, reads |-> 0, printed |-> {}])
         IN  [raised |-> acc.raised,
              result |-> IF acc.raised = "" THEN acc.all_snippets ELSE <<>>,
              cdir |-> acc.cdir,
              sc |-> IF acc.raised = "" THEN Some(acc.all_snippets) ELSE sc,
              decodes |-> acc.decodes, reads |-> acc.reads,
              printed |-> acc.printed, enumerated |-> TRUE]

\* lines 223-238, with order the list that line 231 builds; sc is _snippets_cache
get_all_snippets(force_reprocess, order, dir, cdir, sc) ==
    IF sc.set /\ ~force_reprocess
    THEN [raised |-> "", result |-> sc.value, cdir |-> cdir, sc |-> sc,
          decodes |-> 0, reads |-> 0, printed |-> {}, enumerated |-> FALSE]
    ELSE Rebuilt(ProcessFiles(order, 1, force_reprocess, dir,
                     [raised |-> "", all_snippets |-> <<>>, cdir |-> cdir,
                      decodes |-> 0, reads |-> 0, printed |-> {}]), sc)

\* A scan that compares the sequence index of the id and not the whole id
FirstWithIndex(snippets, snippet_id) ==
    LET hits == {i \in 1..Len(snippets) : snippets[i].id[3] = snippet_id[3]}
    IN  IF hits = {} THEN <<>>
        ELSE <<snippets[CHOOSE i \in hits : \A j \in hits : i <= j]>>

\* lines 243-246: the first snippet with the id, as a list of one; None as <<>>
FirstWithId(snippets, snippet_id) ==
    LET hits == {i \in 1..Len(snippets) : snippets[i].id = snippet_id}
    IN  IF hits = {} THEN <<>>
        ELSE <<snippets[CHOOSE i \in hits : \A j \in hits : i <= j]>>

\* lines 240-246
get_snippet_by_id(snippet_id, order, dir, cdir, sc) ==
    [get_all_snippets(FALSE, order, dir, cdir, sc) EXCEPT
        !.result = FirstWithId(@, snippet_id)]

\* lines 248-251
get_snippet_ids(order, dir, cdir, sc) ==
    [get_all_snippets(FALSE, order, dir, cdir, sc) EXCEPT
        !.result = [i \in 1..Len(@) |-> [id |-> @[i].id]]]

-----------------------------------------------------------------------------
(* Spec: one parser, its directory and its cache, called by one caller at a time *)

MaxEdits == 1
MaxIndex == 0

NoPath == Path("", "")

LookupIds == {SnippetId(p, i) : p \in {Path("a", "edf"), Path("b", "Edf")}, i \in 0..MaxIndex}

\* The lists line 231 may build; it is not reached when the aggregate is served
Enumerations(force_reprocess) ==
    IF snippets_cache.set /\ ~force_reprocess THEN {<<>>}
    ELSE Orders(edf_files(edf_directory, case_sensitive))

\* What the caller saw of a call: r is what the method computed
\* files is the list line 231 built (when it ran), found the state of the cache
\* entry a process_edf_file call met
Call(op, path, force, id, r, enumerated, files, found) ==
    [op |-> op, path |-> path, force |-> force, id |-> id,
     raised |-> r.raised, result |-> r.result, decodes |-> r.decodes,
     reads |-> r.reads, printed |-> r.printed, enumerated |-> enumerated,
     files |-> files, found |-> found]

\* The cache entry of a file: missing, complete (json.load accepts it) or corrupt
EntryState(cdir, edf_path) ==
    IF ~cdir[get_cache_path(edf_path)].exists THEN "missing"
    ELSE IF json_load(cdir[get_cache_path(edf_path)].text).ok THEN "complete"
    ELSE "corrupt"

Last(h) == h[Len(h)]

\* hist after one more call: the call before it and the call itself
Push(c) == IF hist = <<>> THEN <<c>> ELSE <<hist[Len(hist)], c>>

\* A directory: the content of a.edf, A.EDF, a.EDF and b.Edf
Dir(c1, c2, c3, c4) ==
    [p \in Names |->
        CASE p = Path("a", "edf") -> c1
          [] p = Path("A", "EDF") -> c2
          [] p = Path("a", "EDF") -> c3
          [] OTHER -> c4]

\* The directories the parser is constructed on
Directories ==
    {Dir("absent", "absent", "absent", "absent"),
     Dir("good", "bad", "absent", "good"),
     Dir("good", "good", "short", "absent"),
     Dir("good", "absent", "absent", "bad")}

Init ==
    /\ file = NoFile
    /\ recording = NotRun
    /\ extracted = NotExtracted
    /\ case_sensitive \in BOOLEAN
    /\ edf_directory \in
          {d \in Directories :
              case_sensitive \/
                  \A p, q \in Present(d) : SameFolded(p, q) => p = q}
    /\ cache_directory = [cp \in CachePaths |-> NoEntry]
    /\ snippets_cache = None
    /\ hist = <<>>
    /\ edits = 0
    /\ pc = <<>>
    /\ local = <<>>

ProcessEdfFile ==
    \E edf_path \in Names, force_reprocess \in BOOLEAN :
      \E r \in {process_edf_file(edf_path, force_reprocess, edf_directory,
                                  cache_directory)} :
            /\ cache_directory' = r.cdir
            /\ hist' = Push(Call("process_edf_file", edf_path, force_reprocess, <<>>,
                              r, FALSE, <<>>, EntryState(cache_directory, edf_path)))
            /\ UNCHANGED <<file, recording, extracted, edf_directory,
                           snippets_cache, case_sensitive, edits, pc, local>>

GetAllSnippets ==
    \E force_reprocess \in BOOLEAN :
      \E order \in Enumerations(force_reprocess) :
      \E g \in {get_all_snippets(force_reprocess, order, edf_directory,
                                  cache_directory, snippets_cache)} :
            /\ cache_directory' = g.cdir
            /\ snippets_cache' = g.sc
            /\ hist' = Push(Call("get_all_snippets", NoPath, force_reprocess, <<>>,
                              g, g.enumerated,
                              IF g.enumerated THEN order ELSE <<>>, ""))
            /\ UNCHANGED <<file, recording, extracted, edf_directory,
                           case_sensitive, edits, pc, local>>

GetSnippetById ==
    \E snippet_id \in LookupIds, order \in Enumerations(FALSE) :
      \E g \in {get_snippet_by_id(snippet_id, order, edf_directory,
                                   cache_directory, snippets_cache)} :
            /\ cache_directory' = g.cdir
            /\ snippets_cache' = g.sc
            /\ hist' = Push(Call("get_snippet_by_id", NoPath, FALSE, snippet_id,
                              g, g.enumerated,
                              IF g.enumerated THEN order ELSE <<>>, ""))
            /\ UNCHANGED <<file, recording, extracted, edf_directory,
                           case_sensitive, edits, pc, local>>

GetSnippetIds ==
    \E order \in Enumerations(FALSE) :
      \E g \in {get_snippet_ids(order, edf_directory, cache_directory,
                                 snippets_cache)} :
            /\ cache_directory' = g.cdir
            /\ snippets_cache' = g.sc
            /\ hist' = Push(Call("get_snippet_ids", NoPath, FALSE, <<>>,
                              g, g.enumerated,
                              IF g.enumerated THEN order ELSE <<>>, ""))
            /\ UNCHANGED <<file, recording, extracted, edf_directory,
                           case_sensitive, edits, pc, local>>

\* The environment writes a file of the directory (a new file or new content)
WriteFile ==
    /\ edits < MaxEdits
    /\ \E p \in Names, c \in Contents \ {"good"} :
          /\ edf_directory[p] # c
          /\ case_sensitive \/
                \A q \in Present(edf_directory) : SameFolded(p, q) => p = q
          /\ edf_directory' = [edf_directory EXCEPT ![p] = c]
    /\ edits' = edits + 1
    /\ hist' = <<>>
    /\ UNCHANGED <<file, recording, extracted, cache_directory, snippets_cache,
                   case_sensitive, pc, local>>

\* A write of a cache entry that was cut short (lines 218-219 interrupted, the
\* disk full, the process killed) leaves the text without its end
InterruptedWrite ==
    /\ edits < MaxEdits
    /\ \E cp \in CachePaths :
          /\ cache_directory[cp].exists
          /\ json_load(cache_directory[cp].text).ok
          /\ cache_directory' = [cache_directory EXCEPT
                ![cp] = Entry(SubSeq(cache_directory[cp].text, 1,
                                     Len(cache_directory[cp].text) - 1))]
    /\ edits' = edits + 1
    /\ hist' = <<>>
    /\ UNCHANGED <<file, recording, extracted, edf_directory, snippets_cache,
                   case_sensitive, pc, local>>

Next ==
    \/ ProcessEdfFile
    \/ GetAllSnippets
    \/ GetSnippetById
    \/ GetSnippetIds
    \/ WriteFile
    \/ InterruptedWrite

Spec == Init /\ [][Next]_vars

-----------------------------------------------------------------------------
(* main.py get_snippet: the status the API answers a lookup with *)

get_snippet(call) ==
    IF call.raised # "" THEN 500
    ELSE IF call.result = <<>> THEN 404
    ELSE 200

-----------------------------------------------------------------------------
(* Claims about the cache and the aggregate, under Spec *)

\* hist holds two successive process_edf_file calls on one path, both without
\* force_reprocess, the first of which returned
TwoPlainCalls ==
    /\ Len(hist) = 2
    /\ hist[1].op = "process_edf_file" /\ hist[2].op = "process_edf_file"
    /\ hist[1].path = hist[2].path
    /\ ~hist[1].force /\ ~hist[2].force
    /\ hist[1].raised = ""

C3_CorruptEntryIsMiss ==
    \A i \in 1..Len(hist) :
        (hist[i].op = "process_edf_file" /\ ~hist[i].force
            /\ hist[i].found = "corrupt") =>
                /\ hist[i].raised = ""
                /\ hist[i].decodes = 1
                /\ hist[i].result =
                      Extracted[hist[i].path, edf_directory[hist[i].path]].snippets

\* C4: when files of the directory fail to decode, get_all_snippets still returns,
\* and what it returns holds no snippet of a failing file.
C4_FailureNotFatal ==
    \A i \in 1..Len(hist) :
        (hist[i].op = "get_all_snippets" /\ hist[i].printed # {}) =>
            /\ hist[i].raised = ""
            /\ \A k \in 1..Len(hist[i].result) :
                  hist[i].result[k].source_file \notin hist[i].printed

\* A step that is a call of the parser, and the call it made
IsCall == hist' # hist /\ hist' # <<>>

\* C8: once the aggregate is built, a get_all_snippets, get_snippet_by_id or
\* get_snippet_ids call without force_reprocess is served from it (no
\* enumeration, no cache read, no decode, the cache directory untouched), and
\* nothing but get_all_snippets(force_reprocess=True) replaces it.
C8_ServedFromMemory ==
    [][snippets_cache.set =>
        /\ snippets_cache' # snippets_cache =>
              IsCall /\ Last(hist').op = "get_all_snippets" /\ Last(hist').force
        /\ (IsCall /\ ~Last(hist').force
              /\ Last(hist').op \in {"get_all_snippets", "get_snippet_by_id",
                                     "get_snippet_ids"}) =>
              /\ ~Last(hist').enumerated
              /\ Last(hist').reads = 0 /\ Last(hist').decodes = 0
              /\ Last(hist').raised = ""
              /\ cache_directory' = cache_directory
              /\ snippets_cache' = snippets_cache
              /\ Last(hist').op = "get_all_snippets" =>
                    Last(hist').result = snippets_cache.value
              /\ Last(hist').op = "get_snippet_ids" =>
                    Last(hist').result =
                        [k \in 1..Len(snippets_cache.value) |->
                            [id |-> snippets_cache.value[k].id]]
              /\ Last(hist').op = "get_snippet_by_id" =>
                    \A k \in 1..Len(Last(hist').result) :
                        Last(hist').result[k] \in Range(snippets_cache.value)
    ]_vars

\* The one call made since a file was changed was served from an aggregate built
\* before the change
C8_Witness ==
    /\ snippets_cache.set /\ edits = 1 /\ Len(hist) = 1
    /\ hist[1].op = "get_snippet_ids" /\ ~hist[1].enumerated

\* An empty aggregate was built and then served again
C8_WitnessEmpty ==
    /\ snippets_cache = Some(<<>>) /\ Len(hist) = 2
    /\ hist[1].enumerated /\ hist[2].op = "get_all_snippets" /\ ~hist[2].enumerated

\* C9: a lookup that returns gives a snippet of the aggregate with the requested
\* id when the aggregate holds one, and None (404) exactly when it holds none; a
\* lookup that follows a call that returned the aggregate does not rescan.
C9_PointLookup ==
    (hist # <<>> /\ Last(hist).op = "get_snippet_by_id" /\ Last(hist).raised = "") =>
        LET call == Last(hist)
            ids == {snippets_cache.value[k].id : k \in 1..Len(snippets_cache.value)}
        IN  /\ snippets_cache.set
            /\ call.id \in ids =>
                  /\ Len(call.result) = 1
                  /\ call.result[1].id = call.id
                  /\ call.result[1] \in Range(snippets_cache.value)
                  /\ get_snippet(call) = 200
            /\ call.id \notin ids =>
                  call.result = <<>> /\ get_snippet(call) = 404
            /\ (Len(hist) = 2 /\ hist[1].raised = ""
                    /\ hist[1].op # "process_edf_file") =>
                  ~call.enumerated /\ call.decodes = 0

\* A lookup found its snippet, the next one (of an absent id) got None, no rescan
C9_Witness ==
    /\ Len(hist) = 2
    /\ hist[1].op = "get_snippet_by_id" /\ Len(hist[1].result) = 1
    /\ hist[2].op = "get_snippet_by_id" /\ hist[2].result = <<>>
    /\ hist[2].raised = "" /\ ~hist[2].enumerated
    /\ snippets_cache.value # <<>>

\* C10: a build processes every file whose extension is edf in any letter case
\* exactly once.
C10_EveryFileOnce ==
    \A i \in 1..Len(hist) :
        (hist[i].op = "get_all_snippets" /\ hist[i].enumerated) =>
            \A p \in Present(edf_directory) :
                Lower(p.ext) = "edf" =>
                    Cardinality({k \in 1..Len(hist[i].files) : hist[i].files[k] = p}) = 1

\* C11: the cache key is made of the path alone. A change of a file's content
\* leaves its entry as it is; a process_edf_file call without force_reprocess that
\* meets the entry returns what the entry holds (the snippets of the content it
\* was written from) without decoding and leaves it in place, whatever the file
\* holds now; a call with force_reprocess returns the snippets of the content the
\* file holds now, and an entry is only ever written from that content.
C11_StaleUntilForced ==
    [][/\ edf_directory' # edf_directory => cache_directory' = cache_directory
       /\ (IsCall /\ Last(hist').op = "process_edf_file") =>
             LET call == Last(hist')
                 cp == get_cache_path(call.path)
                 now == Extracted[call.path, edf_directory[call.path]].snippets
             IN  /\ (~call.force /\ call.found = "complete") =>
                       /\ call.raised = "" /\ call.decodes = 0
                       /\ call.result = json_load(cache_directory[cp].text).value
                       /\ cache_directory' = cache_directory
                 /\ call.force => call.raised = "" /\ call.result = now
                 /\ \A q \in CachePaths :
                       cache_directory'[q] # cache_directory[q] =>
                           q = cp /\ cache_directory'[q] = Entry(json_dump(now))
    ]_vars

\* After the file was changed, a call without force_reprocess returned snippets
\* the file no longer yields, and the call with force_reprocess that followed
\* returned those of the new content
C11_Witness ==
    /\ edits = 1 /\ Len(hist) = 2
    /\ hist[1].op = "process_edf_file" /\ hist[2].op = "process_edf_file"
    /\ hist[1].path = hist[2].path
    /\ ~hist[1].force /\ hist[1].found = "complete" /\ hist[1].decodes = 0
    /\ hist[1].result #
          Extracted[hist[1].path, edf_directory[hist[1].path]].snippets
    /\ hist[2].force
    /\ hist[2].result =
          Extracted[hist[2].path, edf_directory[hist[2].path]].snippets
    /\ hist[2].result # <<>>

\* C13: after process_edf_file(path, force_reprocess=True) returned a list L, the
\* next process_edf_file(path) without force_reprocess, the file unchanged in
\* between, returns L too: a forced rebuild that yields no snippet leaves no older
\* entry behind to be served.
C13_ForcedThenPlain ==
    (/\ Len(hist) = 2
     /\ hist[1].op = "process_edf_file" /\ hist[2].op = "process_edf_file"
     /\ hist[1].path = hist[2].path
     /\ hist[1].force /\ hist[1].raised = "" /\ ~hist[2].force) =>
        hist[2].raised = "" /\ hist[2].result = hist[1].result

\* C14: no two snippets of the aggregate get_all_snippets built carry the same
\* id, whether they come from one source file or from two.
C14_UniqueIds ==
    snippets_cache.set =>
        \A i, j \in 1..Len(snippets_cache.value) :
            snippets_cache.value[i].id = snippets_cache.value[j].id => i = j

-----------------------------------------------------------------------------
(* SpecConc: threads of the API's pool inside process_edf_file for one file, *)
(* each statement of lines 204-221 a step of its own                        *)

MaxThreads == 2

Threads == 1..MaxThreads

sharedPath == Path("a", "edf")

Idle == [force |-> FALSE, snippets |-> <<>>, offset |-> 0, seen |-> NoEntry,
         raised |-> "", result |-> <<>>]

\* f.write of one chunk at the writer's own offset: the file grows to hold it, any
\* gap below the offset reads as zero bytes
WriteAt(text, offset, chunk) ==
    [i \in 1..(IF Len(text) > offset THEN Len(text) ELSE offset + 1) |->
        IF i = offset + 1 THEN chunk
        ELSE IF i <= Len(text) THEN text[i]
        ELSE [tok |-> "zeros"]]

InitConc ==
    /\ file = NoFile
    /\ recording = NotRun
    /\ extracted = NotExtracted
    /\ case_sensitive = TRUE
    /\ edf_directory = Dir("good", "absent", "absent", "absent")
    /\ cache_directory = [cp \in CachePaths |-> NoEntry]
    /\ snippets_cache = None
    /\ hist = <<>>
    /\ edits = 0
    /\ pc = [t \in Threads |-> "idle"]
    /\ local = [t \in Threads |-> Idle]

ConcUnchanged ==
    UNCHANGED <<file, recording, extracted, edf_directory, snippets_cache,
                case_sensitive, hist, edits>>

\* line 204: a request thread enters process_edf_file(sharedPath, force_reprocess)
Enter(t) ==
    /\ pc[t] = "idle"
    /\ \E force_reprocess \in BOOLEAN :
          local' = [local EXCEPT ![t] = [Idle EXCEPT !.force = force_reprocess]]
    /\ pc' = [pc EXCEPT ![t] = "check"]
    /\ UNCHANGED cache_directory
    /\ ConcUnchanged

\* line 209: cache_path.exists() and not force_reprocess
CheckExists(t) ==
    /\ pc[t] = "check"
    /\ pc' = [pc EXCEPT ![t] =
                 IF cache_directory[get_cache_path(sharedPath)].exists
                    /\ ~local[t].force
                 THEN "load" ELSE "extract"]
    /\ UNCHANGED <<cache_directory, local>>
    /\ ConcUnchanged

\* lines 210-211: open(cache_path, 'r') and json.load of what the file holds now
LoadEntry(t) ==
    /\ pc[t] = "load"
    /\ LET entry == cache_directory[get_cache_path(sharedPath)]
           loaded == json_load(entry.text)
       IN  local' = [local EXCEPT ![t].seen = entry,
                                  ![t].raised = IF loaded.ok THEN ""
                                                ELSE "JSONDecodeError",
                                  ![t].result = loaded.value]
    /\ pc' = [pc EXCEPT ![t] = "idle"]
    /\ UNCHANGED cache_directory
    /\ ConcUnchanged

\* lines 214 and 217: the snippets, and whether there is anything to cache
ExtractSnippets(t) ==
    /\ pc[t] = "extract"
    /\ LET ex == Extracted[sharedPath, edf_directory[sharedPath]]
       IN  /\ local' = [local EXCEPT ![t].snippets = ex.snippets,
                                     ![t].result = ex.snippets]
           /\ pc' = [pc EXCEPT ![t] = IF ex.snippets # <<>> THEN "open" ELSE "idle"]
    /\ UNCHANGED cache_directory
    /\ ConcUnchanged

\* line 218: open(cache_path, 'w') creates the file or truncates it to nothing
OpenForWrite(t) ==
    /\ pc[t] = "open"
    /\ cache_directory' = [cache_directory EXCEPT
                              ![get_cache_path(sharedPath)] = Entry(<<>>)]
    /\ local' = [local EXCEPT ![t].offset = 0]
    /\ pc' = [pc EXCEPT ![t] = "dump"]
    /\ ConcUnchanged

\* line 219: json.dump hands the text to the file chunk by chunk; leaving the
\* with block after the last chunk returns the snippets
DumpChunk(t) ==
    /\ pc[t] = "dump"
    /\ LET text == json_dump(local[t].snippets)
           cp == get_cache_path(sharedPath)
       IN  /\ cache_directory' = [cache_directory EXCEPT ![cp] =
                  Entry(WriteAt(cache_directory[cp].text, local[t].offset,
                                text[local[t].offset + 1]))]
           /\ local' = [local EXCEPT ![t].offset = local[t].offset + 1]
           /\ pc' = [pc EXCEPT ![t] =
                        IF local[t].offset + 1 = Len(text) THEN "idle" ELSE "dump"]
    /\ ConcUnchanged

NextConc ==
    \E t \in Threads :
        \/ Enter(t)
        \/ CheckExists(t)
        \/ LoadEntry(t)
        \/ ExtractSnippets(t)
        \/ OpenForWrite(t)
        \/ DumpChunk(t)

SpecConc == InitConc /\ [][NextConc]_vars

\* C2: a call that reads the cache entry of a file while another call writes it
\* reads a complete entry, never an empty, truncated or torn one.
C2_ReaderSeesCompleteEntry ==
    \A t \in Threads :
        local[t].seen.exists => json_load(local[t].seen.text).ok

-----------------------------------------------------------------------------
(* SpecAgg: threads of the API's pool inside get_all_snippets, called directly *)
(* or through get_snippet_by_id and get_snippet_ids, on one parser; each       *)
(* statement of lines 223-238 a step of its own, line 234 a step per file and  *)
(* one more where the file's entry is written                                  *)

AggOps == {"get_all_snippets", "get_snippet_by_id", "get_snippet_ids"}

AggIdle == [op |-> "", force |-> FALSE, id |-> <<>>, order |-> <<>>, k |-> 0,
            all_snippets |-> <<>>, raised |-> "", returned |-> None,
            result |-> <<>>]

\* A line that shares the aggregate while it is built (self._snippets_cache and
\* all_snippets one list from line 228 on)
DuringBuildShared(sc, all_snippets) == Some(all_snippets)

\* lines 228-235: all_snippets is a list of the call's own, self._snippets_cache is
\* not assigned before line 237
DuringBuild(sc, all_snippets) == sc

\* What the caller gets: lines 238, 243-246 and 251 on the list get_all_snippets
\* returned
AggResult(op, id, snippets) ==
    CASE op = "get_snippet_by_id" -> FirstWithId(snippets, id)
      [] op = "get_snippet_ids" -> [i \in 1..Len(snippets) |-> [id |-> snippets[i].id]]
      [] OTHER -> snippets

InitAgg ==
    /\ file = NoFile
    /\ recording = NotRun
    /\ extracted = NotExtracted
    /\ case_sensitive \in BOOLEAN
    /\ edf_directory \in
          {d \in Directories :
              case_sensitive \/
                  \A p, q \in Present(d) : SameFolded(p, q) => p = q}
    /\ cache_directory = [cp \in CachePaths |-> NoEntry]
    /\ snippets_cache = None
    /\ hist = <<>>
    /\ edits = 0
    /\ pc = [t \in Threads |-> "idle"]
    /\ local = [t \in Threads |-> AggIdle]

AggUnchanged ==
    UNCHANGED <<file, recording, extracted, edf_directory, case_sensitive,
                hist, edits>>

\* main.py lines 81, 98, 107: a request thread calls into the parser; only
\* get_all_snippets takes force_reprocess
CallAggregate(t) ==
    /\ pc[t] = "idle"
    /\ \E op \in AggOps, force_reprocess \in BOOLEAN, id \in LookupIds :
          /\ force_reprocess => op = "get_all_snippets"
          /\ op # "get_snippet_by_id" => id = SnippetId(Path("a", "edf"), 0)
          /\ local' = [local EXCEPT ![t] =
                [AggIdle EXCEPT !.op = op, !.force = force_reprocess,
                                !.id = IF op = "get_snippet_by_id" THEN id ELSE <<>>]]
    /\ pc' = [pc EXCEPT ![t] = "check"]
    /\ UNCHANGED <<cache_directory, snippets_cache>>
    /\ AggUnchanged

\* lines 225-228: the aggregate is returned as it is, or a new list is begun
CheckAggregate(t) ==
    /\ pc[t] = "check"
    /\ IF snippets_cache.set /\ ~local[t].force
       THEN /\ local' = [local EXCEPT
                   ![t].returned = snippets_cache,
                   ![t].result = AggResult(local[t].op, local[t].id,
                                           snippets_cache.value)]
            /\ pc' = [pc EXCEPT ![t] = "idle"]
       ELSE /\ local' = [local EXCEPT ![t].all_snippets = <<>>]
            /\ pc' = [pc EXCEPT ![t] = "glob"]
    /\ UNCHANGED <<cache_directory, snippets_cache>>
    /\ AggUnchanged

\* line 231: the files, in the order list(set) gives them
Enumerate(t) ==
    /\ pc[t] = "glob"
    /\ \E order \in Orders(edf_files(edf_directory, case_sensitive)) :
          local' = [local EXCEPT ![t].order = order, ![t].k = 1]
    /\ pc' = [pc EXCEPT ![t] = "loop"]
    /\ UNCHANGED <<cache_directory, snippets_cache>>
    /\ AggUnchanged

\* lines 233-235 with lines 206-218 of process_edf_file for the file at k: the
\* entry is loaded (JSONDecodeError leaves the call), or the file is extracted and,
\* when it gave snippets, its entry opened for writing, which empties it
ProcessNext(t) ==
    /\ pc[t] = "loop" /\ local[t].k <= Len(local[t].order)
    /\ LET edf_file == local[t].order[local[t].k]
           cp == get_cache_path(edf_file)
           loaded == json_load(cache_directory[cp].text)
           ex == Extracted[edf_file, edf_directory[edf_file]]
       IN  IF cache_directory[cp].exists /\ ~local[t].force
           THEN IF loaded.ok
                THEN /\ local' = [local EXCEPT
                            ![t].all_snippets = @ \o loaded.value, ![t].k = @ + 1]
                     /\ pc' = pc
                     /\ snippets_cache' =
                           DuringBuild(snippets_cache,
                                       local[t].all_snippets \o loaded.value)
                     /\ UNCHANGED cache_directory
                ELSE /\ local' = [local EXCEPT ![t].raised = "JSONDecodeError"]
                     /\ pc' = [pc EXCEPT ![t] = "idle"]
                     /\ UNCHANGED <<cache_directory, snippets_cache>>
           ELSE IF ex.snippets # <<>>
                THEN /\ cache_directory' = [cache_directory EXCEPT ![cp] = Entry(<<>>)]
                     /\ pc' = [pc EXCEPT ![t] = "dump"]
                     /\ UNCHANGED <<local, snippets_cache>>
                ELSE /\ local' = [local EXCEPT ![t].k = @ + 1]
                     /\ pc' = pc
                     /\ snippets_cache' =
                           DuringBuild(snippets_cache, local[t].all_snippets)
                     /\ UNCHANGED cache_directory
    /\ AggUnchanged

\* lines 219-221 and 235: the entry is written (its text is in place when every
\* chunk is; a reader of any shorter text raises as the reader of the empty one
\* does), the snippets are returned and appended to all_snippets
DumpEntry(t) ==
    /\ pc[t] = "dump"
    /\ LET edf_file == local[t].order[local[t].k]
           ex == Extracted[edf_file, edf_directory[edf_file]]
       IN  /\ cache_directory' = [cache_directory EXCEPT
                  ![get_cache_path(edf_file)] = Entry(json_dump(ex.snippets))]
           /\ local' = [local EXCEPT
                  ![t].all_snippets = @ \o ex.snippets, ![t].k = @ + 1]
           /\ snippets_cache' =
                 DuringBuild(snippets_cache, local[t].all_snippets \o ex.snippets)
    /\ pc' = [pc EXCEPT ![t] = "loop"]
    /\ AggUnchanged

\* lines 237-238: the loop is over, the list becomes the aggregate and is returned
AssignAggregate(t) ==
    /\ pc[t] = "loop" /\ local[t].k > Len(local[t].order)
    /\ snippets_cache' = Some(local[t].all_snippets)
    /\ local' = [local EXCEPT
          ![t].returned = Some(local[t].all_snippets),
          ![t].result = AggResult(local[t].op, local[t].id, local[t].all_snippets)]
    /\ pc' = [pc EXCEPT ![t] = "idle"]
    /\ UNCHANGED cache_directory
    /\ AggUnchanged

NextAgg ==
    \E t \in Threads :
        \/ CallAggregate(t)
        \/ CheckAggregate(t)
        \/ Enumerate(t)
        \/ ProcessNext(t)
        \/ DumpEntry(t)
        \/ AssignAggregate(t)

SpecAgg == InitAgg /\ [][NextAgg]_vars

\* The snippets of the files of order, one file after the other
RECURSIVE SnippetsOf(_, _)
SnippetsOf(order, k) ==
    IF k > Len(order) THEN <<>>
    ELSE Extracted[order[k], edf_directory[order[k]]].snippets
             \o SnippetsOf(order, k + 1)

\* The aggregates that cover every enumerated file
CompleteAggregates ==
    {SnippetsOf(order, 1) : order \in Orders(edf_files(edf_directory, case_sensitive))}

\* C15: under every interleaving of get_all_snippets, get_snippet_by_id and
\* get_snippet_ids calls, _snippets_cache is unset or an aggregate that covers every
\* enumerated file, and so is every aggregate a caller got.
C15_AggregateNeverPartial ==
    /\ snippets_cache.set => snippets_cache.value \in CompleteAggregates
    /\ \A t \in Threads :
          local[t].returned.set => local[t].returned.value \in CompleteAggregates

\* A caller was served the aggregate while another thread was part-way through
\* a forced rebuild, with snippets in its list and files still to process
C15_Witness ==
    \E t, u \in Threads :
        /\ t # u
        /\ pc[t] = "idle" /\ local[t].returned.set /\ ~local[t].force
        /\ local[t].returned.value # <<>>
        /\ local[t].op = "get_snippet_by_id" /\ Len(local[t].result) = 1
        /\ pc[u] = "loop" /\ local[u].force
        /\ local[u].all_snippets # <<>>
        /\ local[u].k <= Len(local[u].order)
        /\ local[u].all_snippets \notin CompleteAggregates

=============================================================================
